---- MODULE Spec2Model ----
(***************************************************************************)
(* News recommendation pipeline: the REPL program (app.py) and the HTTP    *)
(* service (flask_api.py).  Both drive a three-node graph                  *)
(*     extract_interests -> fetch_articles -> rank -> END                  *)
(* over a state record {interests, articles, recommendations}.             *)
(*                                                                         *)
(* Text is a sequence of one-character strings where the code works on     *)
(* characters (the interest extractor, the query builder); the fixed       *)
(* messages are kept as one chunk each.  The @tool wrappers are taken to   *)
(* call the function they wrap, and the article-search payload is taken    *)
(* to be typed as the code annotates it (a list of mappings).              *)
(***************************************************************************)
EXTENDS Integers, Sequences, FiniteSets, TLC

VARIABLES
    program,     \* which program runs: "app" (REPL) or "flask_api" (HTTP service)
    pc,          \* per run: position of the handler / graph
    body,        \* per run: the request body (HTTP) or the line read (REPL)
    state,       \* per run: the pipeline state (AgentState)
    newsResp,    \* per run: outcome of requests.get (kind "none" before the call)
    llmResp,     \* per run: outcome of model.invoke (kind "none" when not called)
    calls,       \* per run: what each node was called with and returned
    runs,        \* per run: how often each node has run in this invocation
    response,    \* per run: the HTTP response / the text printed by the REPL
    input,       \* extractor harness: the string under test
    out,         \* extractor harness: get_user_interests(input)
    out2,        \* extractor harness: get_user_interests(out)
    phase        \* extractor harness: number of applications done

vars == <<program, pc, body, state, newsResp, llmResp, calls, runs, response,
          input, out, out2, phase>>

pipelineVars == <<program, pc, body, state, newsResp, llmResp, calls, runs, response>>
harnessVars == <<input, out, out2, phase>>

\* ---------------------------------------------------------------- bounds

MaxLen == 4          \* longest enumerated extractor input
NumReqs == 2         \* concurrent HTTP requests

\* ---------------------------------------------------------------- text

None == "None"       \* a JSON null in an article record

UpperChars == <<"A","B","C","D","E","F","G","H","I","J","K","L","M",
                "N","O","P","Q","R","S","T","U","V","W","X","Y","Z">>
LowerChars == <<"a","b","c","d","e","f","g","h","i","j","k","l","m",
                "n","o","p","q","r","s","t","u","v","w","x","y","z">>

\* str.lower() on one character
LowerChar(c) ==
    IF \E i \in 1..26 : UpperChars[i] = c
    THEN LowerChars[CHOOSE i \in 1..26 : UpperChars[i] = c]
    ELSE c

\* str.lower()
Lower(s) == [i \in 1..Len(s) |-> LowerChar(s[i])]

IsSpace(c) == c \in {" ", "\t", "\n"}

\* s[i:] (1-based, i may exceed Len(s)+1)
Drop(s, i) == IF i > Len(s) THEN <<>> ELSE SubSeq(s, i, Len(s))

\* s.startswith(p)
StartsWith(s, p) == Len(p) <= Len(s) /\ SubSeq(s, 1, Len(p)) = p

\* p in s
Contains(s, p) == \E i \in 1..(Len(s) + 1) : StartsWith(Drop(s, i), p)

\* str.replace(old, new): leftmost non-overlapping occurrences, left to right
RECURSIVE Replace(_, _, _)
Replace(s, old, new) ==
    IF Len(s) < Len(old) \/ old = <<>> THEN s
    ELSE IF StartsWith(s, old) THEN new \o Replace(Drop(s, Len(old) + 1), old, new)
    ELSE <<Head(s)>> \o Replace(Tail(s), old, new)

\* str.split(sep): the pieces between occurrences of sep, empty pieces kept
RECURSIVE SplitFrom(_, _, _)
SplitFrom(s, sep, cur) ==
    IF s = <<>> THEN <<cur>>
    ELSE IF StartsWith(s, sep) THEN <<cur>> \o SplitFrom(Drop(s, Len(sep) + 1), sep, <<>>)
    ELSE SplitFrom(Tail(s), sep, Append(cur, Head(s)))

Split(s, sep) == SplitFrom(s, sep, <<>>)

\* str.strip()
Strip(s) ==
    LET keep == {i \in 1..Len(s) : ~IsSpace(s[i])}
    IN  IF keep = {} THEN <<>>
        ELSE SubSeq(s, CHOOSE i \in keep : \A j \in keep : i <= j,
                       CHOOSE i \in keep : \A j \in keep : i >= j)

\* sep.join(parts)
RECURSIVE Join(_, _)
Join(parts, sep) ==
    IF parts = <<>> THEN <<>>
    ELSE IF Len(parts) = 1 THEN parts[1]
    ELSE parts[1] \o sep \o Join(Tail(parts), sep)

\* [x for x in parts if x]
RECURSIVE NonEmpty(_)
NonEmpty(parts) ==
    IF parts = <<>> THEN <<>>
    ELSE IF Head(parts) = <<>> THEN NonEmpty(Tail(parts))
    ELSE <<Head(parts)>> \o NonEmpty(Tail(parts))

StripAll(parts) == [i \in 1..Len(parts) |-> Strip(parts[i])]

Phrase == <<"i", "'", "m", " ", "i", "n", "t", "e", "r", "e", "s", "t", "e", "d", " ", "i", "n">>
And == <<"a", "n", "d">>
Comma == <<",">>
CommaSpace == <<",", " ">>
Space == <<" ">>

\* F(e) with e evaluated once, then handed on as a value (the stages of a
\* pipeline of string operations are each computed a single time)
Eval(F(_), e) == CHOOSE y \in {F(v) : v \in {e}} : TRUE

\* ---------------------------------------------------------------- extractor

\* a plausible slip: the pieces are rejoined without trimming them
get_user_interests_untrimmed(s) ==
    Eval(LAMBDA kept : Join(kept, CommaSpace),
      Eval(NonEmpty,
          Eval(LAMBDA cleaned : Split(cleaned, Comma),
            Eval(LAMBDA stripped : Replace(stripped, And, Comma),
              Eval(LAMBDA lowered : Replace(lowered, Phrase, <<>>), Lower(s))))))

\* get_user_interests: lower, drop the phrase, "and" -> ",", split on ",",
\* trim, drop the empty pieces, join with ", "
get_user_interests(s) ==
    Eval(LAMBDA kept : Join(kept, CommaSpace),
      Eval(NonEmpty,
        Eval(StripAll,
          Eval(LAMBDA cleaned : Split(cleaned, Comma),
            Eval(LAMBDA stripped : Replace(stripped, And, Comma),
              Eval(LAMBDA lowered : Replace(lowered, Phrase, <<>>), Lower(s)))))))

\* ---------------------------------------------------------------- data

Reqs == 1..NumReqs
Fields == {"interests", "articles", "recommendations"}

\* the line of the end-to-end scenario, and other topics a caller may send
Example == <<"I", "'", "m", " ", "i", "n", "t", "e", "r", "e", "s", "t", "e", "d", " ", "i", "n", " ",
             "t", "e", "c", "h", "n", "o", "l", "o", "g", "y", " ", "a", "n", "d", " ", "s", "p", "a", "c", "e">>
TechnologySpace == <<"t", "e", "c", "h", "n", "o", "l", "o", "g", "y", ",", " ", "s", "p", "a", "c", "e">>
Acronym == <<"A", "I">>
Quit == <<"q", "u", "i", "t">>
Exit == <<"E", "x", "i", "t">>

\* article records as the search API returns them; the second has "description": null
Article1 == [title |-> "t1", description |-> "d1"]
Article2 == [title |-> "t2", description |-> None]
ArticleLists == {<<>>, <<Article1>>, <<Article2, Article1>>}

\* outcomes of requests.get(...) followed by raise_for_status() and json():
\* a timeout, a non-2xx status, or a 2xx JSON object with a status field and,
\* when has_results, a results list
NoNews == [kind |-> "none", status |-> "", has_results |-> FALSE, results |-> <<>>]
NewsOutcomes ==
    [kind : {"timeout", "http_error"}, status : {""}, has_results : {FALSE}, results : {<<>>}]
    \cup [kind : {"ok"}, status : {"success"}, has_results : {TRUE}, results : ArticleLists]
    \cup {[kind |-> "ok", status |-> "success", has_results |-> FALSE, results |-> <<>>],
          [kind |-> "ok", status |-> "error", has_results |-> TRUE, results |-> <<Article1>>]}

\* outcomes of model.invoke(prompt): a response with content, or an exception
\* whose str() is text
NoLLM == [kind |-> "none", text |-> <<>>]
ModelErrors == {<<"429 quota exceeded">>, <<"401 invalid api key">>}
LLMOutcomes ==
    {[kind |-> "ok", text |-> <<"## Top picks">>]}
    \cup [kind : {"error"}, text : ModelErrors]

\* bodies of POST /recommend: not JSON, JSON null, or an object with or without topic
NoBody == [kind |-> "none", has_topic |-> FALSE, topic |-> <<>>]
Bodies ==
    [kind : {"malformed", "null"}, has_topic : {FALSE}, topic : {<<>>}]
    \cup {[kind |-> "object", has_topic |-> FALSE, topic |-> <<>>]}
    \cup [kind : {"object"}, has_topic : {TRUE}, topic : {<<>>, Space, Acronym}]

\* lines typed at the REPL prompt
Lines == {<<>>, Space, Quit, Exit, And, Example}

NoArticlesApp == <<"No recent articles found matching your interests.">>
NoArticlesFlask == <<"No articles found matching your interests.">>
FailureApp == <<"I couldn't generate recommendations due to a technical issue.">>
FailurePrefixFlask == <<"Failed to generate recommendations due to: ">>
NotSubscriptable == <<"'NoneType' object is not subscriptable">>
MissingTopic == <<"Missing required field: topic">>
NoRecommendations == <<"No recommendations available">>
BadRequest == <<"400 Bad Request: Failed to decode JSON object">>
NoAttributeGet == <<"'NoneType' object has no attribute 'get'">>
PleaseEnter == <<"Please enter some interests.">>
NodeRaised == <<"node raised">>

ArticleCapApp == 10
ArticleCapFlask == 5
KeywordCapFlask == 3

Take(s, n) == IF Len(s) <= n THEN s ELSE SubSeq(s, 1, n)

NoPrompt == [interests |-> <<>>, articles |-> <<>>]

\* ---------------------------------------------------------------- fetcher

\* keywords = [k.strip() for k in interests.split(",")]
Keywords(interests) == Eval(StripAll, Eval(LAMBDA s : Split(s, Comma), interests))

\* app.py: query = " ".join(keywords)
query_app(interests) == Eval(LAMBDA keywords : Join(keywords, Space), Keywords(interests))

\* flask_api.py: query = " ".join(keywords[:3])
query_flask(interests) ==
    Eval(LAMBDA keywords : Join(Take(keywords, KeywordCapFlask), Space), Keywords(interests))

\* data.get("results", [])
Results(resp) == IF resp.has_results THEN resp.results ELSE <<>>

\* app.py fetch_news_articles: [] on RequestException (timeout, non-2xx), on any
\* other exception, and on a payload whose status is not "success"; else
\* data.get("results", [])
fetch_news_articles_app(interests, resp) ==
    [raised |-> FALSE, q |-> query_app(interests),
     value |-> IF resp.kind # "ok" THEN <<>>
               ELSE IF resp.status # "success" THEN <<>>
               ELSE Results(resp)]

\* flask_api.py fetch_news_articles: [] on HTTPError, RequestException and any
\* other exception; else data.get("results", []) whatever the payload's status
fetch_news_articles_flask(interests, resp) ==
    [raised |-> FALSE, q |-> query_flask(interests),
     value |-> IF resp.kind # "ok" THEN <<>> ELSE Results(resp)]

\* ---------------------------------------------------------------- ranker

\* a plausible slip: the empty-batch pre-check is missing
rank_articles_app_nocheck(articles, interests, llm) ==
    [raised |-> FALSE, called |-> 1,
     prompt |-> [interests |-> interests, articles |-> Take(articles, ArticleCapApp)],
     value |-> IF llm.kind = "ok" THEN llm.text ELSE FailureApp]

\* app.py rank_articles: the fixed message on an empty batch; else one
\* model.invoke, its content on success, the fixed failure text on any exception
rank_articles_app(articles, interests, llm) ==
    IF articles = <<>>
    THEN [raised |-> FALSE, called |-> 0, prompt |-> NoPrompt, value |-> NoArticlesApp]
    ELSE [raised |-> FALSE, called |-> 1,
          prompt |-> [interests |-> interests, articles |-> Take(articles, ArticleCapApp)],
          value |-> IF llm.kind = "ok" THEN llm.text ELSE FailureApp]

\* a plausible slip: the except clause is missing, the model's error escapes
rank_articles_flask_uncaught(articles, interests, llm) ==
    IF articles = <<>>
    THEN [raised |-> FALSE, called |-> 0, prompt |-> NoPrompt, value |-> NoArticlesFlask]
    ELSE [raised |-> llm.kind # "ok", called |-> 1,
          prompt |-> [interests |-> interests, articles |-> Take(articles, ArticleCapFlask)],
          value |-> IF llm.kind = "ok" THEN llm.text ELSE <<>>]

\* flask_api.py rank_articles: the fixed message on an empty batch; building the
\* prompt slices each description ([:200]) and fails on a null one before the
\* model is called; else one model.invoke, its content on success; any
\* exception becomes the failure text followed by str(e)
rank_articles_flask(articles, interests, llm) ==
    IF articles = <<>>
    THEN [raised |-> FALSE, called |-> 0, prompt |-> NoPrompt, value |-> NoArticlesFlask]
    ELSE IF \E i \in 1..Len(Take(articles, ArticleCapFlask)) : articles[i].description = None
    THEN [raised |-> FALSE, called |-> 0, prompt |-> NoPrompt,
          value |-> FailurePrefixFlask \o NotSubscriptable]
    ELSE [raised |-> FALSE, called |-> 1,
          prompt |-> [interests |-> interests, articles |-> Take(articles, ArticleCapFlask)],
          value |-> IF llm.kind = "ok" THEN llm.text ELSE FailurePrefixFlask \o llm.text]

\* ---------------------------------------------------------------- pipeline state

\* AgentState as a dict: the keys present and their values
EmptyState == [keys |-> {}, interests |-> <<>>, articles |-> <<>>, recommendations |-> <<>>]

\* the state the graph is invoked with: {"interests": topic}
InitialState(topic) == [EmptyState EXCEPT !.keys = {"interests"}, !.interests = topic]

\* the graph folds the dict a node returns into the state, key by key
Merge(st, upd) ==
    [keys |-> st.keys \cup upd.keys,
     interests |-> IF "interests" \in upd.keys THEN upd.interests ELSE st.interests,
     articles |-> IF "articles" \in upd.keys THEN upd.articles ELSE st.articles,
     recommendations |-> IF "recommendations" \in upd.keys THEN upd.recommendations
                         ELSE st.recommendations]

NoCall == [done |-> FALSE, interests |-> <<>>, articles |-> <<>>, ret |-> <<>>]
NoCalls == [extract_interests |-> NoCall, fetch_articles |-> NoCall, rank |-> NoCall]
NoRuns == [invoke |-> 0, extract_interests |-> 0, fetch_articles |-> 0, rank |-> 0, model |-> 0]
NoResponse == [status |-> 0, key |-> "", value |-> <<>>]

\* ---------------------------------------------------------------- nodes

\* a plausible slip: the node also clears the articles key
extract_interests_node_clobber(st) ==
    LET interests == get_user_interests(st.interests)
    IN  [raised |-> ~("interests" \in st.keys),
         call |-> [done |-> TRUE, interests |-> st.interests, articles |-> <<>>, ret |-> interests],
         update |-> [EmptyState EXCEPT !.keys = {"interests", "articles"}, !.interests = interests]]

\* extract_interests_node: {"interests": get_user_interests(state["interests"])}
extract_interests_node(st) ==
    LET interests == get_user_interests(st.interests)
    IN  [raised |-> ~("interests" \in st.keys),
         call |-> [done |-> TRUE, interests |-> st.interests, articles |-> <<>>, ret |-> interests],
         update |-> [EmptyState EXCEPT !.keys = {"interests"}, !.interests = interests]]

\* app.py fetch_articles_node: {"articles": fetch_news_articles(state["interests"])}
fetch_articles_node_app(st, resp) ==
    LET got == fetch_news_articles_app(st.interests, resp)
    IN  [raised |-> ~("interests" \in st.keys) \/ got.raised,
         call |-> [done |-> TRUE, interests |-> st.interests, articles |-> <<>>, ret |-> got.value],
         update |-> [EmptyState EXCEPT !.keys = {"articles"}, !.articles = got.value]]

\* flask_api.py fetch_articles_node
fetch_articles_node_flask(st, resp) ==
    LET got == fetch_news_articles_flask(st.interests, resp)
    IN  [raised |-> ~("interests" \in st.keys) \/ got.raised,
         call |-> [done |-> TRUE, interests |-> st.interests, articles |-> <<>>, ret |-> got.value],
         update |-> [EmptyState EXCEPT !.keys = {"articles"}, !.articles = got.value]]

\* a plausible slip: the ranker is handed an empty batch instead of state["articles"]
rank_node_app_noarticles(st, llm) ==
    LET got == rank_articles_app(<<>>, st.interests, llm)
    IN  [raised |-> ~({"articles", "interests"} \subseteq st.keys) \/ got.raised,
         called |-> got.called,
         call |-> [done |-> TRUE, interests |-> st.interests, articles |-> <<>>, ret |-> got.value],
         update |-> [EmptyState EXCEPT !.keys = {"recommendations"}, !.recommendations = got.value]]

\* app.py rank_node: {"recommendations": rank_articles(articles=state["articles"],
\* interests=state["interests"])}; nothing is caught here
rank_node_app(st, llm) ==
    LET got == rank_articles_app(st.articles, st.interests, llm)
    IN  [raised |-> ~({"articles", "interests"} \subseteq st.keys) \/ got.raised,
         called |-> got.called,
         call |-> [done |-> TRUE, interests |-> st.interests, articles |-> st.articles, ret |-> got.value],
         update |-> [EmptyState EXCEPT !.keys = {"recommendations"}, !.recommendations = got.value]]

\* flask_api.py rank_node: as above, but any exception (a missing key, a failed
\* RankInput, an error out of rank_articles) becomes the failure text
rank_node_flask(st, llm) ==
    LET got == rank_articles_flask(st.articles, st.interests, llm)
        missing == ~({"articles", "interests"} \subseteq st.keys)
        text == IF missing THEN FailurePrefixFlask \o <<"KeyError">>
                ELSE IF got.raised THEN FailurePrefixFlask \o llm.text
                ELSE got.value
    IN  [raised |-> FALSE,
         called |-> IF missing THEN 0 ELSE got.called,
         call |-> [done |-> ~missing, interests |-> st.interests, articles |-> st.articles,
                   ret |-> IF got.raised THEN <<>> ELSE got.value],
         update |-> [EmptyState EXCEPT !.keys = {"recommendations"}, !.recommendations = text]]

\* ---------------------------------------------------------------- graph

\* a plausible slip: the edge out of fetch_articles is wired back to the entry node
graph_cyclic ==
    [entry |-> "extract_interests",
     edges |-> [extract_interests |-> "fetch_articles", fetch_articles |-> "extract_interests",
                rank |-> "END"]]

\* app.py: set_entry_point and the three add_edge calls
graph ==
    [entry |-> "extract_interests",
     edges |-> [extract_interests |-> "fetch_articles", fetch_articles |-> "rank", rank |-> "END"]]

\* flask_api.py: the same wiring
workflow ==
    [entry |-> "extract_interests",
     edges |-> [extract_interests |-> "fetch_articles", fetch_articles |-> "rank", rank |-> "END"]]

Graph == IF program = "app" THEN graph ELSE workflow

\* a plausible slip: one module-level state dict, re-initialised by every invocation
invoke_shared(all, r, topic) == [q \in Reqs |-> InitialState(topic)]

\* news_recommender.invoke / app_graph.invoke({"interests": topic}): a new state
\* dict for this invocation
invoke(all, r, topic) == [all EXCEPT ![r] = InitialState(topic)]

\* ---------------------------------------------------------------- graph steps

\* one node has run for r: fold its update, record the call, follow its edge;
\* an exception out of the node ends the invocation
Advance(r, name, n) ==
    /\ runs' = [runs EXCEPT ![r][name] = @ + 1, ![r].model = @ + n.called]
    /\ calls' = [calls EXCEPT ![r][name] = n.call]
    /\ IF n.raised
       THEN /\ pc' = [pc EXCEPT ![r] = "raised"]
            /\ state' = state
       ELSE /\ pc' = [pc EXCEPT ![r] = Graph.edges[name]]
            /\ state' = [state EXCEPT ![r] = Merge(@, n.update)]

ExtractStep(r) ==
    /\ pc[r] = "extract_interests"
    /\ \E n \in {extract_interests_node(state[r])} :
          Advance(r, "extract_interests", n @@ [called |-> 0])
    /\ UNCHANGED <<program, body, newsResp, llmResp, response, harnessVars>>

FetchStep(r) ==
    /\ pc[r] = "fetch_articles"
    /\ \E resp \in NewsOutcomes :
          /\ newsResp' = [newsResp EXCEPT ![r] = resp]
          /\ \E n \in {IF program = "app" THEN fetch_articles_node_app(state[r], resp)
                       ELSE fetch_articles_node_flask(state[r], resp)} :
                Advance(r, "fetch_articles", n @@ [called |-> 0])
    /\ UNCHANGED <<program, body, llmResp, response, harnessVars>>

RankStep(r) ==
    /\ pc[r] = "rank"
    /\ \E llm \in LLMOutcomes :
          \E n \in {IF program = "app" THEN rank_node_app(state[r], llm)
                    ELSE rank_node_flask(state[r], llm)} :
              /\ llmResp' = [llmResp EXCEPT ![r] = IF n.called = 1 THEN llm ELSE NoLLM]
              /\ Advance(r, "rank", n)
    /\ UNCHANGED <<program, body, newsResp, response, harnessVars>>

Step(r) == ExtractStep(r) \/ FetchStep(r) \/ RankStep(r)

\* ---------------------------------------------------------------- HTTP service

\* recommend(), up to the call of the graph: get_json, data.get('topic'), the
\* truthiness check, and app_graph.invoke; every exception is answered 500
Recommend(r) ==
    /\ program = "flask_api"
    /\ pc[r] = "idle"
    /\ \E b \in Bodies :
          /\ body' = [body EXCEPT ![r] = b]
          /\ IF b.kind = "malformed"
             THEN /\ response' = [response EXCEPT ![r] = [status |-> 500, key |-> "error", value |-> BadRequest]]
                  /\ pc' = [pc EXCEPT ![r] = "responded"]
                  /\ UNCHANGED <<state, runs>>
             ELSE IF b.kind = "null"
             THEN /\ response' = [response EXCEPT ![r] = [status |-> 500, key |-> "error", value |-> NoAttributeGet]]
                  /\ pc' = [pc EXCEPT ![r] = "responded"]
                  /\ UNCHANGED <<state, runs>>
             ELSE IF ~b.has_topic \/ b.topic = <<>>
             THEN /\ response' = [response EXCEPT ![r] = [status |-> 400, key |-> "error", value |-> MissingTopic]]
                  /\ pc' = [pc EXCEPT ![r] = "responded"]
                  /\ UNCHANGED <<state, runs>>
             ELSE /\ state' = invoke(state, r, b.topic)
                  /\ runs' = [runs EXCEPT ![r].invoke = @ + 1]
                  /\ pc' = [pc EXCEPT ![r] = Graph.entry]
                  /\ UNCHANGED response
    /\ UNCHANGED <<program, newsResp, llmResp, calls, harnessVars>>

\* recommend(), after the graph returned or raised
Respond(r) ==
    /\ program = "flask_api"
    /\ pc[r] \in {"END", "raised"}
    /\ response' = [response EXCEPT ![r] =
          IF pc[r] = "raised" THEN [status |-> 500, key |-> "error", value |-> NodeRaised]
          ELSE [status |-> 200, key |-> "recommendations",
                value |-> IF "recommendations" \in state[r].keys
                          THEN state[r].recommendations ELSE NoRecommendations]]
    /\ pc' = [pc EXCEPT ![r] = "responded"]
    /\ UNCHANGED <<program, body, state, newsResp, llmResp, calls, runs, harnessVars>>

\* ---------------------------------------------------------------- REPL

\* one turn of the loop up to the call of the graph: quit/exit leaves, a blank
\* line is refused, anything else invokes the graph on a new state
ReplRead ==
    /\ program = "app"
    /\ pc[1] = "prompt"
    /\ \E line \in Lines :
          /\ body' = [body EXCEPT ![1] = [kind |-> "line", has_topic |-> TRUE, topic |-> line]]
          /\ newsResp' = [newsResp EXCEPT ![1] = NoNews]
          /\ llmResp' = [llmResp EXCEPT ![1] = NoLLM]
          /\ calls' = [calls EXCEPT ![1] = NoCalls]
          /\ IF Lower(line) \in {Quit, Lower(Exit)}
             THEN /\ pc' = [pc EXCEPT ![1] = "exited"]
                  /\ response' = [response EXCEPT ![1] = [status |-> 0, key |-> "print", value |-> <<"Goodbye!">>]]
                  /\ state' = [state EXCEPT ![1] = EmptyState]
                  /\ runs' = [runs EXCEPT ![1] = NoRuns]
             ELSE IF Strip(line) = <<>>
             THEN /\ pc' = pc
                  /\ response' = [response EXCEPT ![1] = [status |-> 0, key |-> "print", value |-> PleaseEnter]]
                  /\ state' = [state EXCEPT ![1] = EmptyState]
                  /\ runs' = [runs EXCEPT ![1] = NoRuns]
             ELSE /\ state' = invoke(state, 1, line)
                  /\ runs' = [runs EXCEPT ![1] = [NoRuns EXCEPT !.invoke = 1]]
                  /\ pc' = [pc EXCEPT ![1] = Graph.entry]
                  /\ response' = [response EXCEPT ![1] = NoResponse]
    /\ UNCHANGED <<program, harnessVars>>

\* KeyboardInterrupt at the prompt
ReplInterrupt ==
    /\ program = "app"
    /\ pc[1] = "prompt"
    /\ pc' = [pc EXCEPT ![1] = "exited"]
    /\ response' = [response EXCEPT ![1] = [status |-> 0, key |-> "print", value |-> <<"Goodbye!">>]]
    /\ UNCHANGED <<program, body, state, newsResp, llmResp, calls, runs, harnessVars>>

\* the rest of the turn: print result['recommendations'], or the error, and loop
ReplPrint ==
    /\ program = "app"
    /\ pc[1] \in {"END", "raised"}
    /\ response' = [response EXCEPT ![1] =
          IF pc[1] = "raised" \/ ~("recommendations" \in state[1].keys)
          THEN [status |-> 0, key |-> "error", value |-> NodeRaised]
          ELSE [status |-> 0, key |-> "recommendations", value |-> state[1].recommendations]]
    /\ pc' = [pc EXCEPT ![1] = "prompt"]
    /\ UNCHANGED <<program, body, state, newsResp, llmResp, calls, runs, harnessVars>>

\* ---------------------------------------------------------------- specification

HarnessIdle == input = <<>> /\ out = <<>> /\ out2 = <<>> /\ phase = 0

PipelineInit(prog) ==
    /\ program = prog
    /\ pc = [r \in Reqs |-> IF prog = "flask_api" THEN "idle"
                            ELSE IF r = 1 THEN "prompt" ELSE "unused"]
    /\ body = [r \in Reqs |-> NoBody]
    /\ state = [r \in Reqs |-> EmptyState]
    /\ newsResp = [r \in Reqs |-> NoNews]
    /\ llmResp = [r \in Reqs |-> NoLLM]
    /\ calls = [r \in Reqs |-> NoCalls]
    /\ runs = [r \in Reqs |-> NoRuns]
    /\ response = [r \in Reqs |-> NoResponse]

Init == (\E prog \in {"app", "flask_api"} : PipelineInit(prog)) /\ HarnessIdle

Next ==
    \/ \E r \in Reqs : ExtractStep(r)
    \/ \E r \in Reqs : FetchStep(r)
    \/ \E r \in Reqs : RankStep(r)
    \/ \E r \in Reqs : Recommend(r)
    \/ \E r \in Reqs : Respond(r)
    \/ ReplRead
    \/ ReplInterrupt
    \/ ReplPrint

Spec == Init /\ [][Next]_vars

\* a started node runs to completion: the graph runs its nodes synchronously,
\* and every request thread of the service is eventually scheduled
FairSpec == Spec /\ \A r \in Reqs : WF_vars(Step(r))

\* ---------------------------------------------------------------- extractor harness

Alphabet == {"a", "n", "d", ",", " ", "B"}
Nested == <<"i", "'", "m", " ", "i", "n", "t", "e", "r", "e", "s", "t", "e",
            "i", "'", "m", " ", "i", "n", "t", "e", "r", "e", "s", "t", "e", "d", " ", "i", "n",
            "d", " ", "i", "n">>
Inputs == UNION {[1..n -> Alphabet] : n \in 0..MaxLen} \cup {Example, TechnologySpace, Nested, Phrase}

InitExtract ==
    /\ PipelineInit("app")
    /\ input \in Inputs
    /\ out = <<>> /\ out2 = <<>> /\ phase = 0

Apply ==
    /\ phase = 0
    /\ out' = get_user_interests(input)
    /\ phase' = 1
    /\ UNCHANGED <<input, out2, pipelineVars>>

ApplyAgain ==
    /\ phase = 1
    /\ out2' = get_user_interests(out)
    /\ phase' = 2
    /\ UNCHANGED <<input, out, pipelineVars>>

NextExtract == Apply \/ ApplyAgain

SpecExtract == InitExtract /\ [][NextExtract]_vars

\* ---------------------------------------------------------------- properties

Invoked(r) == runs[r].invoke = 1
NodeRuns(r) == <<runs[r].extract_interests, runs[r].fetch_articles, runs[r].rank>>
Finished(r) == pc[r] \in {"END", "responded", "prompt", "exited"} /\ Invoked(r)

\* r's invocation stands at a node that has yet to run
InGraph(r) == pc[r] \in {"extract_interests", "fetch_articles", "rank"}

\* where the graph stands agrees with what has run: nothing ran before extract,
\* only extract before fetch, extract and fetch once each before rank, and each
\* node exactly once when the invocation has ended; no invocation is cut short
InOrder(r) ==
    /\ pc[r] # "raised"
    /\ pc[r] = "extract_interests" => Invoked(r) /\ NodeRuns(r) = <<0, 0, 0>>
    /\ pc[r] = "fetch_articles" => Invoked(r) /\ NodeRuns(r) = <<1, 0, 0>>
    /\ pc[r] = "rank" => Invoked(r) /\ NodeRuns(r) = <<1, 1, 0>>
    /\ Finished(r) => NodeRuns(r) = <<1, 1, 1>>
    /\ ~Invoked(r) => NodeRuns(r) = <<0, 0, 0>> /\ ~InGraph(r) /\ pc[r] # "END"

\* C1: in every invocation of either graph, whatever the nodes produce, extract,
\* fetch and rank each run exactly once, in that order, and the invocation then
\* reaches END; no node is skipped, repeated or run before its predecessor.
C1_StepsOnceInOrder ==
    /\ [](\A r \in Reqs : InOrder(r))
    /\ (\E r \in Reqs : InGraph(r)) ~> (\A r \in Reqs : ~InGraph(r))

\* an invocation that ended after an empty keyword string and an empty article list
C1_Witness ==
    \E r \in Reqs :
        /\ pc[r] = "END" /\ NodeRuns(r) = <<1, 1, 1>>
        /\ state[r].interests = <<>> /\ state[r].articles = <<>>

FetchFailed(resp) ==
    \/ resp.kind \in {"timeout", "http_error"}
    \/ resp.kind = "ok" /\ resp.status # "success"

\* C2: in both programs fetch_news_articles returns an empty list and does not
\* raise when the search call times out, answers non-2xx, or answers 2xx with a
\* status field other than the success marker.
C2_FetchEmptyOnFailure ==
    \A r \in Reqs :
        calls[r].fetch_articles.done /\ FetchFailed(newsResp[r])
            => calls[r].fetch_articles.ret = <<>> /\ pc[r] # "raised"

NoArticles == IF program = "app" THEN NoArticlesApp ELSE NoArticlesFlask

\* C3: handed an empty article batch, rank_articles returns the fixed no-articles
\* message and the language model is not invoked at all in that run.
C3_EmptyBatchNoModelCall ==
    \A r \in Reqs :
        calls[r].rank.done /\ calls[r].rank.articles = <<>>
            => /\ runs[r].model = 0
               /\ llmResp[r] = NoLLM
               /\ calls[r].rank.ret = NoArticles
               /\ state[r].recommendations = NoArticles

\* a run whose ranker was handed an empty batch
C3_Witness ==
    \E r \in Reqs : calls[r].rank.done /\ calls[r].rank.articles = <<>> /\ pc[r] = "END"

\* C4: a failure of the model call never leaves rank_articles: for a non-empty
\* batch and any model failure the ranker returns a string, the rank step sets
\* recommendations, and the invocation reaches its end.
C4_ModelFailureAbsorbed ==
    \A r \in Reqs :
        runs[r].rank = 1 /\ llmResp[r].kind = "error"
            => /\ calls[r].rank.done
               /\ calls[r].rank.articles # <<>>
               /\ calls[r].rank.ret # <<>>
               /\ "recommendations" \in state[r].keys
               /\ state[r].recommendations = calls[r].rank.ret
               /\ Finished(r)

\* a finished run of each kind whose model call failed
C4_Witness ==
    \E r \in Reqs :
        /\ llmResp[r].kind = "error" /\ runs[r].model = 1
        /\ pc[r] = "END" /\ calls[r].rank.articles # <<>>

\* a node of r's graph runs in this step
StepOf(r) == pc[r] \in {"extract_interests", "fetch_articles", "rank"} /\ pc'[r] # pc[r]

Others(f) == Fields \ {f}
Same(r, f) == state'[r][f] = state[r][f]

\* C5 as stated: every step writes exactly one field, one that was not set before
\* the step, and leaves the other fields as they were.
C5_EachStepWritesOneNewField ==
    [][\A r \in Reqs : StepOf(r) =>
          \E f \in Fields :
              /\ ~(f \in state[r].keys)
              /\ state'[r].keys = state[r].keys \cup {f}
              /\ \A g \in Others(f) : Same(r, g)]_vars

Owner(node) ==
    CASE node = "extract_interests" -> "interests"
      [] node = "fetch_articles" -> "articles"
      [] node = "rank" -> "recommendations"

\* C5 amended: every step writes exactly one field, its own, and leaves the other
\* two unchanged; fetch and rank set a field that was not set before, while
\* extract overwrites interests, which the caller set to the raw input.
C5_EachStepWritesItsOwnField ==
    [][\A r \in Reqs : StepOf(r) =>
          LET f == Owner(pc[r])
          IN  /\ state'[r].keys = state[r].keys \cup {f}
              /\ \A g \in Others(f) : Same(r, g)
              /\ (pc[r] = "extract_interests") => (f \in state[r].keys)
              /\ (pc[r] # "extract_interests") => ~(f \in state[r].keys)]_vars

\* a finished run in which extract rewrote interests and the other two were added
C5_Witness ==
    \E r \in Reqs :
        /\ pc[r] = "END" /\ state[r].keys = Fields
        /\ state[r].interests # body[r].topic
        /\ state[r].articles # <<>>

TopicMissingOrEmpty(b) == ~b.has_topic \/ b.topic = <<>>

\* C6: every POST /recommend whose topic is missing or empty is answered 400 with
\* an error field, and the graph is not invoked for it.
C6_MissingTopicIs400 ==
    \A r \in Reqs :
        program = "flask_api" /\ pc[r] = "responded" /\ TopicMissingOrEmpty(body[r])
            => /\ response[r].status = 400
               /\ response[r].key = "error"
               /\ runs[r].invoke = 0

\* C7: when the model call fails, the string rank_articles returns embeds the
\* description of the error, in both programs.
C7_FailureEmbedsError ==
    \A r \in Reqs :
        calls[r].rank.done /\ llmResp[r].kind = "error"
            => Contains(calls[r].rank.ret, llmResp[r].text)

\* a keyword: non-empty, trimmed, lower-case, without a comma
IsKeyword(k) == k # <<>> /\ Strip(k) = k /\ Lower(k) = k /\ ~Contains(k, Comma)

\* keywords joined with ", " (none at all gives the empty string)
IsClean(s) ==
    s = <<>> \/ LET ks == Split(s, CommaSpace) IN \A i \in 1..Len(ks) : IsKeyword(ks[i])

\* C8 as stated: on every clean string, and on every string the extractor
\* returns, get_user_interests gives the string back.
C8_IdempotentOnClean ==
    /\ phase >= 1 /\ IsClean(input) => out = input
    /\ phase = 2 => out2 = out

\* C8 amended: get_user_interests(s) = s for every clean s that contains neither
\* "and" nor "i'm interested in"; a string the extractor returns is returned
\* again unless it contains "i'm interested in".
C8_IdempotentOnCleanWithoutAnd ==
    /\ phase >= 1 /\ IsClean(input) /\ ~Contains(input, And) /\ ~Contains(input, Phrase)
           => out = input
    /\ phase = 2 /\ ~Contains(out, Phrase) => out2 = out

\* a clean string of two keywords, extracted twice
C8_Witness ==
    /\ phase = 2 /\ IsClean(input) /\ ~Contains(input, And)
    /\ Len(Split(input, CommaSpace)) = 2
    /\ out = input /\ out2 = input

\* what a request's state is after 0, 1, 2 and 3 nodes, from its own topic and
\* the outcomes of its own external calls
After0(r) == InitialState(body[r].topic)
After1(r) == Merge(After0(r), extract_interests_node(After0(r)).update)
After2(r) == Merge(After1(r), fetch_articles_node_flask(After1(r), newsResp[r]).update)
After3(r) == Merge(After2(r), rank_node_flask(After2(r), llmResp[r]).update)

OwnState(r) ==
    /\ pc[r] = "idle" => state[r] = EmptyState /\ response[r] = NoResponse
    /\ pc[r] = "extract_interests" => state[r] = After0(r)
    /\ pc[r] = "fetch_articles" => state[r] = After1(r)
    /\ pc[r] = "rank" => state[r] = After2(r)
    /\ pc[r] = "END" => state[r] = After3(r)
    /\ pc[r] = "responded" /\ Invoked(r) =>
          /\ state[r] = After3(r)
          /\ response[r] = [status |-> 200, key |-> "recommendations",
                            value |-> After3(r).recommendations]
    /\ pc[r] = "responded" /\ ~Invoked(r) => state[r] = EmptyState /\ response[r].status # 200
    /\ pc[r] \in {"idle", "extract_interests", "fetch_articles", "rank", "END", "responded"}

\* C9: with several /recommend requests in flight, each runs the graph on its own
\* new state: under every interleaving of their steps, the state of a request is
\* at every point the one its own topic and the outcomes of its own external
\* calls produce, and so is the answer it gets; no step of another request shows.
C9_RequestsIsolated ==
    program = "flask_api" => \A r \in Reqs : OwnState(r)

\* two requests with different topics, both answered, one while the other was
\* still between nodes
C9_Witness ==
    /\ program = "flask_api"
    /\ \E r, q \in Reqs :
          /\ r # q /\ body[r].topic # body[q].topic
          /\ pc[r] = "responded" /\ Invoked(r)
          /\ pc[q] = "rank" /\ state[q].interests # state[r].interests

\* C10: data passes between the steps unchanged: fetch is called with the string
\* extract returned ("technology, space" for the example line), rank with the
\* articles fetch returned and that same string, and the final recommendations
\* field is the string the ranker returned.
C10_DataFlowsUnchanged ==
    \A r \in Reqs :
        /\ calls[r].extract_interests.done =>
              /\ calls[r].extract_interests.interests = body[r].topic
              /\ body[r].topic = Example => calls[r].extract_interests.ret = TechnologySpace
        /\ calls[r].fetch_articles.done =>
              /\ calls[r].extract_interests.done
              /\ calls[r].fetch_articles.interests = calls[r].extract_interests.ret
        /\ runs[r].rank = 1 =>
              /\ calls[r].rank.done /\ calls[r].fetch_articles.done
              /\ calls[r].rank.articles = calls[r].fetch_articles.ret
              /\ calls[r].rank.interests = calls[r].extract_interests.ret
              /\ state[r].recommendations = calls[r].rank.ret
        /\ response[r].key = "recommendations" => response[r].value = calls[r].rank.ret

\* the end-to-end scenario: the example line, two articles fetched, the model's
\* text as the final recommendations
C10_Witness ==
    \E r \in Reqs :
        /\ pc[r] = "END" /\ body[r].topic = Example
        /\ state[r].interests = TechnologySpace
        /\ Len(state[r].articles) = 2
        /\ llmResp[r].kind = "ok" /\ state[r].recommendations = llmResp[r].text

====
